---- MODULE Spec2Model ----
(***************************************************************************)
(* Model of go-libs/github: the authenticated GitHub client (NewClient and *)
(* the API operations built on httpclient.ApiClient.Do) and the repository *)
(* cache (NewRepositoryCache / repositoryCache.Load over                   *)
(* localcache.LocalCache).                                                 *)
(*                                                                         *)
(* Three specifications share the module:                                  *)
(*   SpecClient  one caller driving API operations through the pipeline    *)
(*   SpecCache   concurrent repositoryCache.Load calls over one cache dir  *)
(*   SpecKey     cache construction and the files the caches address       *)
(*                                                                         *)
(* httpclient.ApiClient.Do (databricks-sdk-go) and localcache.LocalCache   *)
(* are not part of the sources at hand: their steps are modelled from the  *)
(* design document (sections 4.1, 4.3, 6, 7) and are marked as such below. *)
(***************************************************************************)
EXTENDS Integers, Sequences, FiniteSets, TLC

VARIABLES
    \* ---- client pipeline ----
    cfg,        \* GitHubConfig: [RetryTimeout]
    pc,         \* "idle" | "visit" | "send" | "return"
    call,       \* name of the API operation in progress / last returned
    request,    \* the *http.Request of the current attempt
    target,     \* the variable handed to WithResponseUnmarshal
    err,        \* the error c.api.Do is about to return
    elapsed,    \* attempts already spent from the retry budget
    tokenLog,   \* results of the cfg.Token() calls of this operation
    netLog,     \* requests that reached the transport, with what the remote did
    mutations,  \* times the remote applied this operation's POST/PATCH
    ret,        \* what the operation returned to its caller
    \* ---- repository cache ----
    now,        \* wall clock, in hours
    files,      \* the cache directory: file name -> stored entry
    loader,     \* per caller: the Load call in progress
    calls,      \* per org: number of ListRepositories calls made by Load
    lastWrite,  \* file name -> the value the latest writer persisted
    caches      \* the repositoryCache objects built so far

clientVars == <<cfg, pc, call, request, target, err, elapsed, tokenLog, netLog, mutations, ret>>
cacheVars == <<now, files, loader, calls, lastWrite, caches>>
vars == <<clientVars, cacheVars>>

\* ------------------------------------------------------------------ bounds
\* Largest retry budget a configuration holds (one unit = one attempt's time).
MaxRetryTimeout == 2

\* ------------------------------------------------------------- Go values
\* Values are records throughout, so that any two of them compare.
Nil == [nil |-> TRUE]

NilPtr == [ptr |-> Nil]

NoValue == [none |-> TRUE]

EmptyBody == [empty |-> TRUE]

\* fmt.Errorf("<msg>: %w", cause)
Errorf(msg, cause) == [msg |-> msg, wraps |-> cause]

\* ---------------------------------------------------------- Token Source
\* oauth2.Token values the GitHubTokenSource may hand out.
Credentials ==
    { [TokenType |-> "Bearer", AccessToken |-> "ghp_a"],
      [TokenType |-> "token", AccessToken |-> "ghp_b"] }

ZeroToken == [TokenType |-> "", AccessToken |-> ""]

TokenFailure == [msg |-> "no credentials"]

\* Every (token, err) pair cfg.Token() can return.
TokenResults ==
    { [token |-> c, err |-> Nil] : c \in Credentials }
        \cup { [token |-> ZeroToken, err |-> TokenFailure] }

\* ------------------------------------------------------------ operations
GET == "GET"
POST == "POST"
PATCH == "PATCH"

\* Method, request payload and response target of each API operation.
Operations ==
    [ Versions          |-> [method |-> GET,   data |-> FALSE, out |-> TRUE],
      CreateRelease     |-> [method |-> POST,  data |-> TRUE,  out |-> TRUE],
      GetRepo           |-> [method |-> GET,   data |-> FALSE, out |-> TRUE],
      ListRepositories  |-> [method |-> GET,   data |-> FALSE, out |-> TRUE],
      ListRuns          |-> [method |-> GET,   data |-> FALSE, out |-> TRUE],
      CompareCommits    |-> [method |-> GET,   data |-> FALSE, out |-> TRUE],
      ListPullRequests  |-> [method |-> GET,   data |-> TRUE,  out |-> TRUE],
      EditPullRequest   |-> [method |-> PATCH, data |-> TRUE,  out |-> FALSE],
      CreatePullRequest |-> [method |-> POST,  data |-> TRUE,  out |-> TRUE],
      GetPullRequest    |-> [method |-> GET,   data |-> FALSE, out |-> TRUE] ]

OpNames == DOMAIN Operations

Mutating(op) == Operations[op].method \in {POST, PATCH}

\* The zero value of a response variable (var res Release, var repos ...).
ZeroTarget == [decoded |-> EmptyBody]

\* json.Unmarshal of a response body into the target.
Unmarshal(body) == [decoded |-> body]

\* Operations that report success whatever c.api.Do returned.
ApiReturnDropsError(op, tgt, e) ==
    IF op = "EditPullRequest" THEN [val |-> NoValue, err |-> Nil]
    ELSE [val |-> tgt, err |-> Nil]

\* The value an operation hands back beside its error.
ApiReturn(op, tgt, e) ==
    CASE op = "EditPullRequest" -> [val |-> NoValue, err |-> e]
      [] op = "CreatePullRequest" ->
            IF e # Nil THEN [val |-> NilPtr, err |-> e]
                       ELSE [val |-> [ptr |-> tgt], err |-> Nil]
      [] op \in {"CreateRelease", "GetPullRequest"} -> [val |-> [ptr |-> tgt], err |-> e]
      [] op = "ListRuns" -> [val |-> [field |-> "workflow_runs", of |-> tgt], err |-> e]
      [] op = "CompareCommits" -> [val |-> [field |-> "commits", of |-> tgt], err |-> e]
      [] OTHER -> [val |-> tgt, err |-> e]

\* ---------------------------------------------------------------- visitor
\* fmt.Sprintf("%s %s", token.TokenType, token.AccessToken)
AuthHeader(token) == token.TokenType \o " " \o token.AccessToken

\* A visitor that stamps the header whatever cfg.Token() returned.
TokenVisitorIgnoresError(r, log, tk) ==
    [ request |-> [r EXCEPT !.Authorization = AuthHeader(tk.token)],
      log     |-> Append(log, tk),
      err     |-> Nil ]

\* A visitor that asks the token source twice: once to test, once to use.
TokenVisitorCallsTwice(r, log, tk) ==
    IF tk.err # Nil
    THEN [request |-> r, log |-> Append(log, tk), err |-> Errorf("token", tk.err)]
    ELSE [ request |-> [r EXCEPT !.Authorization = AuthHeader(tk.token)],
           log     |-> Append(Append(log, tk), tk),
           err     |-> Nil ]

\* The request visitor NewClient installs.  tk is what cfg.Token() returns
\* on this invocation; log is the token source's call record.
TokenVisitor(r, log, tk) ==
    IF tk.err # Nil
    THEN [request |-> r, log |-> Append(log, tk), err |-> Errorf("token", tk.err)]
    ELSE [ request |-> [r EXCEPT !.Authorization = AuthHeader(tk.token)],
           log     |-> Append(log, tk),
           err     |-> Nil ]

\* ------------------------------------------------------ request pipeline
\* http.NewRequestWithContext: every attempt starts from a request that
\* carries no Authorization header.
NewRequest(op) ==
    [op |-> op, method |-> Operations[op].method, Authorization |-> ""]

\* What the transport and the remote can do with one request.
\*   delivered: the remote received and processed the request.
TransportOutcomes ==
    { [kind |-> "2xx", status |-> 200, body |-> [json |-> b], delivered |-> TRUE] : b \in {"r1", "r2"} }
        \cup { [kind |-> "api_error", status |-> 403, body |-> [message |-> "forbidden"], delivered |-> TRUE],
               [kind |-> "server_error", status |-> 503, body |-> [message |-> "unavailable"], delivered |-> TRUE],
               [kind |-> "network_error", status |-> 0, body |-> EmptyBody, delivered |-> FALSE],
               [kind |-> "network_error", status |-> 0, body |-> EmptyBody, delivered |-> TRUE] }

\* The remote applies a mutating request it received unless it rejects it.
Applied(method, o) ==
    /\ method \in {POST, PATCH}
    /\ o.delivered
    /\ o.kind \in {"2xx", "network_error"}

\* Transient failures: 5xx and network errors.
Retriable(o) == o.kind \in {"server_error", "network_error"}

\* A budget check that lets one attempt too many through.
WithinBudgetOffByOne(spent, budget) == spent <= budget + 1

\* The retry-timeout budget: each attempt spends one unit of it.
WithinBudget(spent, budget) == spent <= budget

\* The error a failed attempt surfaces.
AttemptError(o) ==
    IF o.kind = "network_error"
    THEN [msg |-> "transport", status |-> 0, body |-> EmptyBody]
    ELSE [msg |-> "api", status |-> o.status, body |-> o.body]

\* A pipeline that decodes every response body it gets.
ResponseTargetAnyStatus(out, tgt, o) ==
    IF out /\ o.delivered /\ o.body # EmptyBody THEN Unmarshal(o.body) ELSE tgt

\* The response target after an attempt: only a 2xx body is decoded.
ResponseTarget(out, tgt, o) ==
    IF out /\ o.kind = "2xx" THEN Unmarshal(o.body) ELSE tgt

ClientIdle ==
    /\ pc = "idle"
    /\ call = "none"
    /\ request = NewRequest("GetRepo")
    /\ target = ZeroTarget
    /\ err = Nil
    /\ elapsed = 0
    /\ tokenLog = <<>>
    /\ netLog = <<>>
    /\ mutations = 0
    /\ ret = [val |-> NoValue, err |-> Nil]

InitClient ==
    /\ cfg \in [RetryTimeout : 0 .. MaxRetryTimeout]
    /\ ClientIdle

\* The caller invokes one API operation: c.api.Do(ctx, method, url, ...).
Call(op) ==
    /\ pc = "idle"
    /\ call' = op
    /\ request' = NewRequest(op)
    /\ target' = ZeroTarget
    /\ err' = Nil
    /\ elapsed' = 0
    /\ tokenLog' = <<>>
    /\ netLog' = <<>>
    /\ mutations' = 0
    /\ ret' = [val |-> NoValue, err |-> Nil]
    /\ pc' = "visit"
    /\ UNCHANGED cfg
    /\ UNCHANGED cacheVars

\* One attempt, before dispatch: build the request and run the visitor.
Visit ==
    /\ pc = "visit"
    /\ \E tk \in TokenResults :
          LET v == TokenVisitor(NewRequest(call), tokenLog, tk) IN
          /\ request' = v.request
          /\ tokenLog' = v.log
          /\ err' = v.err
          /\ pc' = IF v.err # Nil THEN "return" ELSE "send"
    /\ UNCHANGED <<cfg, call, target, elapsed, netLog, mutations, ret>>
    /\ UNCHANGED cacheVars

\* One attempt, dispatch: the request reaches the transport; the outcome
\* is decoded, surfaced or retried while the retry budget lasts.
Send ==
    /\ pc = "send"
    /\ \E o \in TransportOutcomes :
          /\ netLog' = Append(netLog, [request |-> request, tok |-> Len(tokenLog), outcome |-> o])
          /\ mutations' = mutations + (IF Applied(request.method, o) THEN 1 ELSE 0)
          /\ elapsed' = elapsed + 1
          /\ target' = ResponseTarget(Operations[call].out, target, o)
          /\ IF o.kind = "2xx"
             THEN err' = Nil /\ pc' = "return"
             ELSE IF Retriable(o) /\ WithinBudget(elapsed + 1, cfg.RetryTimeout)
                  THEN err' = Nil /\ pc' = "visit"
                  ELSE err' = AttemptError(o) /\ pc' = "return"
    /\ UNCHANGED <<cfg, call, request, tokenLog, ret>>
    /\ UNCHANGED cacheVars

\* The operation returns to its caller.
Return ==
    /\ pc = "return"
    /\ ret' = ApiReturn(call, target, err)
    /\ pc' = "idle"
    /\ UNCHANGED <<cfg, call, request, target, err, elapsed, tokenLog, netLog, mutations>>
    /\ UNCHANGED cacheVars

\* ------------------------------------------------------ repository cache
\* const repositoryCacheTTL = 24 * time.Hour, in hours.
repositoryCacheTTLHalved == 24 \div 2

repositoryCacheTTLDoubled == 24 * 2

repositoryCacheTTL == 24

\* The clock advances in steps of half a TTL, so that an entry is seen
\* younger than, exactly as old as, and older than the TTL.
ClockStep == repositoryCacheTTL \div 2

\* Last clock reading explored.
MaxNow == 36

\* ListRepositories calls explored per org.
MaxCalls == 2

\* Callers that may run Load at the same time.
NumLoaders == 2

\* Longest org string explored by SpecKey, and caches built there.
MaxOrgLen == 2

MaxCaches == 2

Loaders == 1 .. NumLoaders

\* Strings as sequences of characters.
OrgAlphabet == {"a", "b"}

\* The non-empty strings of at most n characters.
StringsUpTo(n) == UNION { [1 .. k -> OrgAlphabet] : k \in 1 .. n }

OrgStrings == StringsUpTo(MaxOrgLen)

\* The org whose cache SpecCache exercises.
CacheOrgs == { <<"a">> }

CacheDir == "cache"

RepositoriesSuffix == <<"-", "r", "e", "p", "o", "s", "i", "t", "o", "r", "i", "e", "s">>

\* A file name that does not depend on the org.
CacheFileNameShared(org) == RepositoriesSuffix

\* filename := fmt.Sprintf("%s-repositories", org)
CacheFileName(org) == org \o RepositoriesSuffix

\* localcache.NewLocalCache[Repositories](cacheDir, filename, validity)
NewLocalCache(cacheDir, name, validity) ==
    [dir |-> cacheDir, name |-> name, validity |-> validity]

\* NewRepositoryCache(client, org, cacheDir)
NewRepositoryCache(org, cacheDir) ==
    [ cache |-> NewLocalCache(cacheDir, CacheFileName(org), repositoryCacheTTL),
      Org   |-> org ]

\* The key under which a LocalCache addresses the durable store.
StoreKey(lc) == <<lc.dir, lc.name>>

\* GET /users/{org}/repos: the remote's listings for an org.
RemoteRepos(org) == { [org |-> org, list |-> l] : l \in {"r1", "r2"} }

\* The errors c.api.Do can end with.
DoErrors ==
    { Errorf("token", TokenFailure),
      [msg |-> "api", status |-> 403, body |-> [message |-> "forbidden"]],
      [msg |-> "transport", status |-> 0, body |-> EmptyBody] }

\* What c.client.ListRepositories(ctx, org) can return.
ListRepositoriesResults(org) ==
    { ApiReturn("ListRepositories", Unmarshal(b), Nil) : b \in RemoteRepos(org) }
        \cup { ApiReturn("ListRepositories", ZeroTarget, e) : e \in DoErrors }

\* ---- localcache.LocalCache, after section 4.3 of the design document ----
AbsentEntry == [kind |-> "absent", value |-> ZeroTarget, fetchedAt |-> 0]

\* Keyed get: the stored blob, or nothing.
ReadEntry(fs, key) == IF key \in DOMAIN fs THEN fs[key] ELSE AbsentEntry

\* A freshness test that looks at the timestamp only.
EntryStateTrustsCorrupt(e, t, validity) ==
    CASE e.kind = "absent" -> "Absent"
      [] t - e.fetchedAt < validity -> "Fresh"
      [] OTHER -> "Stale"

\* The state of a cache key: Absent, Fresh, Stale or Corrupt.
EntryState(e, t, validity) ==
    CASE e.kind = "absent" -> "Absent"
      [] e.kind = "corrupt" -> "Corrupt"
      [] t - e.fetchedAt < validity -> "Fresh"
      [] OTHER -> "Stale"

\* A put that never replaces an existing file.
PersistIfAbsent(fs, key, value, t) ==
    IF key \in DOMAIN fs THEN fs
    ELSE [k \in DOMAIN fs \cup {key} |->
            IF k = key THEN [kind |-> "entry", value |-> value, fetchedAt |-> t] ELSE fs[k]]

\* Keyed put of {value, fetchedAt: now}: one blob replaces the other.
Persist(fs, key, value, t) ==
    [k \in DOMAIN fs \cup {key} |->
        IF k = key THEN [kind |-> "entry", value |-> value, fetchedAt |-> t] ELSE fs[k]]

NoCache == [cache |-> NewLocalCache("", <<>>, 0), Org |-> <<>>]

\* A caller outside Load.
IdleLoader ==
    [pc |-> "idle", cache |-> NoCache, found |-> "none", value |-> ZeroTarget, err |-> Nil]

CacheIdle ==
    /\ now = 0
    /\ files = <<>>
    /\ loader = [p \in Loaders |-> IdleLoader]
    /\ calls = [o \in {} |-> 0]
    /\ lastWrite = <<>>

CallsOf(org) == IF org \in DOMAIN calls THEN calls[org] ELSE 0

\* r.cache.Load(ctx, refresh), first step: read the store and decide.
\* A Fresh entry is returned as stored; anything else leads to refresh.
LoadBegin(p, c) ==
    /\ loader[p].pc = "idle"
    /\ CallsOf(c.Org) < MaxCalls
    /\ LET e == ReadEntry(files, StoreKey(c.cache))
           st == EntryState(e, now, c.cache.validity)
       IN  loader' = [loader EXCEPT ![p] =
              IF st = "Fresh"
              THEN [pc |-> "done", cache |-> c, found |-> st, value |-> e.value, err |-> Nil]
              ELSE [pc |-> "compute", cache |-> c, found |-> st, value |-> ZeroTarget, err |-> Nil]]
    /\ UNCHANGED <<now, files, calls, lastWrite, caches>>
    /\ UNCHANGED clientVars

\* The refresh closure of repositoryCache.Load: r.client.ListRepositories(ctx, r.Org).
\* A failed refresh ends Load with the error; nothing is written.
LoadCompute(p) ==
    /\ loader[p].pc = "compute"
    /\ LET org == loader[p].cache.Org IN
       /\ calls' = [o \in DOMAIN calls \cup {org} |-> IF o = org THEN CallsOf(org) + 1 ELSE calls[o]]
       /\ \E r \in ListRepositoriesResults(org) :
             loader' = [loader EXCEPT ![p] =
                IF r.err # Nil
                THEN [@ EXCEPT !.pc = "done", !.value = ZeroTarget, !.err = r.err]
                ELSE [@ EXCEPT !.pc = "write", !.value = r.val]]
    /\ UNCHANGED <<now, files, lastWrite, caches>>
    /\ UNCHANGED clientVars

\* Last step after a successful refresh: persist {value, fetchedAt: now}.
LoadWrite(p) ==
    /\ loader[p].pc = "write"
    /\ LET key == StoreKey(loader[p].cache.cache) IN
       /\ files' = Persist(files, key, loader[p].value, now)
       /\ lastWrite' = [k \in DOMAIN lastWrite \cup {key} |->
                          IF k = key THEN loader[p].value ELSE lastWrite[k]]
    /\ loader' = [loader EXCEPT ![p] = [@ EXCEPT !.pc = "done"]]
    /\ UNCHANGED <<now, calls, caches>>
    /\ UNCHANGED clientVars

\* Load hands (value, err) to its caller.
LoadReturn(p) ==
    /\ loader[p].pc = "done"
    /\ loader' = [loader EXCEPT ![p] = IdleLoader]
    /\ UNCHANGED <<now, files, calls, lastWrite, caches>>
    /\ UNCHANGED clientVars

\* Time passes.
Tick ==
    /\ now + ClockStep <= MaxNow
    /\ now' = now + ClockStep
    /\ UNCHANGED <<files, loader, calls, lastWrite, caches>>
    /\ UNCHANGED clientVars

\* The environment damages a stored file: it no longer reads or parses.
Corrupt(key) ==
    /\ key \in DOMAIN files
    /\ files[key].kind = "entry"
    /\ files' = [files EXCEPT ![key] = [@ EXCEPT !.kind = "corrupt", !.value = [garbage |-> TRUE]]]
    /\ UNCHANGED <<now, loader, calls, lastWrite, caches>>
    /\ UNCHANGED clientVars

\* A caller builds a repository cache for an org over the cache directory.
BuildCache(org) ==
    /\ Cardinality(caches) < MaxCaches
    /\ caches' = caches \cup {NewRepositoryCache(org, CacheDir)}
    /\ UNCHANGED <<now, files, loader, calls, lastWrite>>
    /\ UNCHANGED clientVars

\* ---------------------------------------------------------- specifications
InitCache ==
    /\ cfg = [RetryTimeout |-> 0]
    /\ ClientIdle
    /\ CacheIdle
    /\ caches = { NewRepositoryCache(o, CacheDir) : o \in CacheOrgs }

InitKey ==
    /\ cfg = [RetryTimeout |-> 0]
    /\ ClientIdle
    /\ CacheIdle
    /\ caches = {}

Init ==
    /\ InitClient
    /\ CacheIdle
    /\ caches = {}

Next ==
    \/ \E op \in OpNames : Call(op)
    \/ Visit
    \/ Send
    \/ Return

NextCache ==
    \/ \E p \in Loaders, c \in caches : LoadBegin(p, c)
    \/ \E p \in Loaders : LoadCompute(p)
    \/ \E p \in Loaders : LoadWrite(p)
    \/ \E p \in Loaders : LoadReturn(p)
    \/ Tick
    \/ \E k \in DOMAIN files : Corrupt(k)

NextKey ==
    \/ \E org \in OrgStrings : BuildCache(org)
    \/ \E c \in caches : LoadBegin(1, c)
    \/ LoadCompute(1)
    \/ LoadWrite(1)
    \/ LoadReturn(1)

Spec == Init /\ [][Next]_vars

SpecCache == InitCache /\ [][NextCache]_vars

SpecKey == InitKey /\ [][NextKey]_vars

\* ================================================================ claims
\* ---------------------------------------------------------------- helpers
LastSent == netLog[Len(netLog)]

\* Results that carry nothing decoded from a response.
EmptyResults ==
    { NoValue, NilPtr, ZeroTarget, [ptr |-> ZeroTarget],
      [field |-> "workflow_runs", of |-> ZeroTarget],
      [field |-> "commits", of |-> ZeroTarget] }

\* Attempts whose request the remote processed while the response was lost.
LostResponses(n) ==
    { i \in 1 .. n : netLog[i].outcome.kind = "network_error" /\ netLog[i].outcome.delivered }

KeyOf(c) == <<c.cache.dir, c.cache.name>>

\* The loader p takes the first step of Load on cache c.
Begins(p, c) ==
    /\ loader[p].pc = "idle"
    /\ loader'[p].pc # "idle"
    /\ loader'[p].cache = c

IntactEntry(c) == KeyOf(c) \in DOMAIN files /\ files[KeyOf(c)].kind = "entry"

CorruptEntry(c) == KeyOf(c) \in DOMAIN files /\ files[KeyOf(c)].kind = "corrupt"

\* The loader p finishes the write step of Load.
Writes(p) == loader[p].pc = "write" /\ loader'[p].pc = "done"

\* The loader p's refresh call returns.
Computes(p) == loader[p].pc = "compute" /\ loader'[p].pc # "compute"

CallsAfter(org) == IF org \in DOMAIN calls' THEN calls'[org] ELSE 0

\* The write step stores {value: the computed value, fetchedAt: now},
\* returns that value and makes no further refresh call.
WriteEffect(p) ==
    LET key == KeyOf(loader[p].cache) IN
    /\ key \in DOMAIN files'
    /\ files'[key] = [kind |-> "entry", value |-> loader[p].value, fetchedAt |-> now]
    /\ loader'[p].value = loader[p].value
    /\ loader'[p].err = Nil
    /\ calls' = calls

\* ---------------------------------------------------------------- C1
\* C1: every request that reached the network carries
\* Authorization = "<tokenType> <accessToken>" of the credential the Token
\* Source returned for that request; a request whose Token() call failed
\* never reaches the network, and the operation ends with the error
\* "token: ..." wrapping the Token Source's error.
C1_AuthorizationFromToken ==
    /\ \A i \in 1 .. Len(netLog) :
          /\ netLog[i].tok \in 1 .. Len(tokenLog)
          /\ tokenLog[netLog[i].tok].err = Nil
          /\ netLog[i].request.Authorization =
                tokenLog[netLog[i].tok].token.TokenType \o " "
                    \o tokenLog[netLog[i].tok].token.AccessToken
    /\ \A j \in 1 .. Len(tokenLog) :
          tokenLog[j].err # Nil =>
             /\ \A i \in 1 .. Len(netLog) : netLog[i].tok # j
             /\ j = Len(tokenLog)
             /\ pc \in {"return", "idle"}
             /\ err = [msg |-> "token", wraps |-> tokenLog[j].err]
             /\ pc = "idle" => ret.err = err

\* A retry whose Token() call failed after a first attempt was sent.
C1_Witness ==
    /\ pc = "idle"
    /\ Len(tokenLog) = 2
    /\ tokenLog[2].err # Nil
    /\ Len(netLog) = 1
    /\ netLog[1].request.Authorization = "Bearer ghp_a"
    /\ ret.err = [msg |-> "token", wraps |-> TokenFailure]

\* ---------------------------------------------------------------- C6
\* C6: the response target is only ever filled from a 2xx body, and an
\* operation whose surfaced response is non-2xx returns a non-nil error (with
\* the status for an API error) beside a result that carries no decoded data.
C6_Non2xxNeverPopulates ==
    /\ target # ZeroTarget =>
          /\ Len(netLog) > 0
          /\ LastSent.outcome.kind = "2xx"
          /\ target = [decoded |-> LastSent.outcome.body]
    /\ (pc = "idle" /\ call # "none" /\ Len(netLog) > 0
            /\ LastSent.outcome.kind \in {"api_error", "server_error"}) =>
          /\ ret.err # Nil
          /\ ret.val \in EmptyResults
          /\ (LastSent.outcome.kind = "api_error" /\ Len(tokenLog) = Len(netLog)) =>
                ret.err = [msg |-> "api", status |-> 403, body |-> [message |-> "forbidden"]]

\* GetRepo answered 403.
C6_Witness ==
    /\ pc = "idle"
    /\ call = "GetRepo"
    /\ Len(netLog) = 1
    /\ LastSent.outcome.status = 403
    /\ ret.val = ZeroTarget
    /\ ret.err.status = 403

C9_OneTokenCallPerRequest ==
    /\ \A i \in 1 .. Len(netLog) :
          /\ netLog[i].tok = i
          /\ i <= Len(tokenLog)
          /\ netLog[i].request.Authorization =
                tokenLog[i].token.TokenType \o " " \o tokenLog[i].token.AccessToken
    /\ Len(tokenLog) = Len(netLog) + (IF pc = "send" THEN 1 ELSE 0)
          \/ (Len(tokenLog) = Len(netLog) + 1 /\ tokenLog[Len(tokenLog)].err # Nil)

\* A retry that got, and used, another credential than the first attempt.
C9_Witness ==
    /\ Len(netLog) = 2
    /\ Len(tokenLog) = 2
    /\ tokenLog[1].token # tokenLog[2].token
    /\ netLog[1].request.Authorization = "Bearer ghp_a"
    /\ netLog[2].request.Authorization = "token ghp_b"

\* ---------------------------------------------------------------- C2
\* C2: a Load begun on an intact entry younger than 24 hours returns the
\* stored value, which is the value the computing Load persisted, without a
\* ListRepositories call and without touching the store.
C2_FreshLoadServedFromStore ==
    [][ \A p \in Loaders : \A c \in caches :
          (Begins(p, c) /\ IntactEntry(c) /\ now - files[KeyOf(c)].fetchedAt < 24) =>
             /\ loader'[p].pc = "done"
             /\ loader'[p].value = files[KeyOf(c)].value
             /\ loader'[p].value = lastWrite[KeyOf(c)]
             /\ loader'[p].err = Nil
             /\ calls' = calls
             /\ files' = files ]_vars

\* A hit on an entry 12 hours old, after one ListRepositories call in all.
C2_Witness ==
    \E p \in Loaders :
       /\ loader[p].pc = "done"
       /\ loader[p].found = "Fresh"
       /\ IntactEntry(loader[p].cache)
       /\ now - files[KeyOf(loader[p].cache)].fetchedAt = 12
       /\ loader[p].value = files[KeyOf(loader[p].cache)].value
       /\ CallsOf(loader[p].cache.Org) = 1

C5_FailedComputeWritesNothing ==
    [][ /\ \A p \in Loaders :
             /\ (Computes(p) /\ loader'[p].pc = "done") =>
                   /\ loader'[p].err \in DoErrors
                   /\ loader'[p].value = ZeroTarget
                   /\ files' = files
             /\ (loader[p].pc = "done" /\ loader'[p].pc = "idle") => files' = files
             /\ \A c \in caches :
                   (Begins(p, c) /\ KeyOf(c) \notin DOMAIN files) =>
                      /\ loader'[p].pc = "compute"
                      /\ loader'[p].found = "Absent"
        /\ \A k \in DOMAIN files' :
              files'[k].kind = "entry" =>
                 \E c \in caches : KeyOf(c) = k /\ files'[k].value.decoded \in RemoteRepos(c.Org) ]_vars

\* Two Loads in a row on an absent key failed; the store is still empty.
C5_Witness ==
    \E p \in Loaders :
       /\ loader[p].pc = "done"
       /\ loader[p].found = "Absent"
       /\ loader[p].err = [msg |-> "api", status |-> 403, body |-> [message |-> "forbidden"]]
       /\ files = <<>>
       /\ CallsOf(loader[p].cache.Org) = 2

HasPrefixForm(name, prefix, org) == name = prefix \o <<"-">> \o org

InitialSegments(name) == { SubSeq(name, 1, k) : k \in 0 .. Len(name) }

\* Equal keys exactly for equal orgs, and stored values stay with their org.
OneSlotPerScope ==
    /\ \A c1 \in caches : \A c2 \in caches : (KeyOf(c1) = KeyOf(c2)) <=> (c1.Org = c2.Org)
    /\ \A c \in caches :
          IntactEntry(c) => files[KeyOf(c)].value.decoded.org = c.Org
    /\ \A p \in Loaders :
          (loader[p].pc = "done" /\ loader[p].err = Nil) =>
             loader[p].value.decoded.org = loader[p].cache.Org

\* C8 as claimed: the key is <prefix>-<scope> for one fixed prefix, with one
\* slot per scope.
C8_PrefixThenScope ==
    /\ \E prefix \in UNION { InitialSegments(c.cache.name) : c \in caches } \cup {<<>>} :
          \A c \in caches : HasPrefixForm(c.cache.name, prefix, c.Org)
    /\ OneSlotPerScope

\* C8 as amended: the key is <scope>-repositories, the org followed by the
\* fixed suffix, with one slot per scope in a store addressed by that key.
C8_ScopeThenSuffix ==
    /\ \A c \in caches :
          c.cache.name = c.Org \o <<"-", "r", "e", "p", "o", "s", "i", "t", "o", "r", "i", "e", "s">>
    /\ OneSlotPerScope

\* Two caches for different orgs, both stored; one serves its own entry.
C8_Witness ==
    /\ Cardinality(caches) = 2
    /\ \A c \in caches : IntactEntry(c)
    /\ loader[1].pc = "done"
    /\ loader[1].found = "Fresh"
    /\ loader[1].value.decoded.org = <<"a", "b">>

====
